---- MODULE Spec2Model ----
(***************************************************************************)
(* A model of the fcoin node (src/src/blockchain.rs, src/src/main.rs):     *)
(* the Node aggregate (blockchain, tip_hash, peers), block ingestion       *)
(* (block_received / valid_block / amount), the proof-of-work step         *)
(* (proof_of_work / to_32bytes), the mining task (block_generator), the    *)
(* bounded mpsc channel of ProtoBlocks and the peer sessions (peer_loop).  *)
(*                                                                         *)
(* Critical sections under the Node's tokio Mutex contain no suspension    *)
(* point, so each one is a single atomic action.  Every `.await` that can  *)
(* suspend a task between two critical sections or on the channel is a     *)
(* separate position of that task.  LockSpec takes the critical sections   *)
(* apart again, statement by statement under an explicit lock, to show     *)
(* that they are atomic.                                                   *)
(***************************************************************************)
EXTENDS Integers, Sequences, FiniteSets, TLC

VARIABLES
    blockchain,   \* Node.blockchain : HashMap<Hash, Block>
    tip_hash,     \* Node.tip_hash
    peers,        \* Node.peers (the addresses that are keys of the table)
    console,      \* what the last block_received printed about its outcome
    queue,        \* the mpsc channel's buffer of ProtoBlocks
    waiters,      \* the tasks suspended in tx.send, in the order they called it
    generator,    \* the block_generator task: its position and what it holds
    session,      \* the peer_loop tasks: position and the frame held
    lock,         \* the Node's Mutex: the task that holds it, or "free"
    linear,       \* history kept by the steps of LockSpec: the Node as the
                  \* operations leave it when run one after the other in the
                  \* order they took the lock
    returned      \* the arguments and the result of the last call of amount

vars == <<blockchain, tip_hash, peers, console, queue, waiters, generator,
          session, lock, linear, returned>>
node_vars == <<blockchain, tip_hash, console>>
channel_vars == <<queue, waiters>>
lock_vars == <<lock, linear>>

----------------------------------------------------------------------------
(* Bounds of the model *)

MaxBlocks == 2      \* blocks the Chain Store may hold
MaxNonce == 1       \* proof-of-work retries per ProtoBlock
HashBits == 3       \* width of the digest's numeric value (256 in the code)
NonceLen == 4       \* bytes of a nonce, and the width to_32bytes pads to (32
                    \* in the code)

(* Program constants *)

ByteBase == 256         \* u8
ChannelCapacity == 1    \* mpsc::channel(1)
NodePublicKey == 0      \* read_public_key_from_disk() = [0; 128]
ZeroSignature == 0      \* sign() = [0; 128]

(* Input domains: a public key [k; 128] is written k *)

Keys == {0, 1, 2}
Amounts == {0, 1, 10}
Times == {0, 1}
PeerAddrs == {"p1", "p2"}

----------------------------------------------------------------------------
(* Data model *)

TransactionDetails_new(source, destination, amt) ==
    [source_public_key |-> source,
     destination_public_key |-> destination,
     amount |-> amt]

Transaction_new(details, signature) ==
    [details |-> details, source_signature |-> signature]

NewBlock(time, key, prev, nonce, transaction) ==
    [time |-> time,
     node_public_key |-> key,
     previous_hash |-> prev,
     nonce |-> nonce,
     transaction |-> transaction]

ZeroNonce == [i \in 1..NonceLen |-> 0]

\* [0; 32]: the root.  A hash is <<numeric value, hashed fields...>>; the root
\* has value 0 and is the digest of no block.
ZeroHash == <<0>>

transaction_to_proto_block(transaction) ==
    [nonce |-> ZeroNonce, transaction |-> transaction]

----------------------------------------------------------------------------
(* Byte strings and BigUint: a BigUint is its little-endian byte string      *)
(* without most-significant zero bytes (the empty string is zero).           *)

\* the least and the most significant byte: what the digest's value mixes in
\* of a nonce, and what the bound on the retries measures
NonceEnds(nonce) == nonce[1] + nonce[NonceLen]

RECURSIVE from_bytes_le(_)
from_bytes_le(bytes) ==
    IF bytes = <<>> THEN <<>>
    ELSE IF bytes[Len(bytes)] = 0
         THEN from_bytes_le(SubSeq(bytes, 1, Len(bytes) - 1))
         ELSE bytes

RECURSIVE add_one(_)
add_one(digits) ==
    IF digits = <<>> THEN <<1>>
    ELSE IF Head(digits) + 1 < ByteBase
         THEN <<Head(digits) + 1>> \o Tail(digits)
         ELSE <<0>> \o add_one(Tail(digits))

to_bytes_le(digits) == IF digits = <<>> THEN <<0>> ELSE digits

\* bytes[32 - n..32].copy_from_slice(byte_vector): the vector lands in the LAST
\* n places.  (n > 32 panics; no nonce of the model is that long.)
to_32bytes(byte_vector) ==
    LET n == Len(byte_vector)
    IN  [i \in 1..NonceLen |->
            IF i <= NonceLen - n THEN 0 ELSE byte_vector[i - (NonceLen - n)]]

increment_nonce(nonce) == to_32bytes(to_bytes_le(add_one(from_bytes_le(nonce))))

----------------------------------------------------------------------------
(* Hashing.  SHA-256 is modelled as collision free: the digest carries the  *)
(* fields it was computed from, in the order they are chained, behind a     *)
(* numeric value (the digest read as a little-endian integer, scaled to     *)
(* HashBits bits) that mixes all of them.  The digest is 32 bytes long, so  *)
(* to_32bytes copies it verbatim.                                           *)

HashSpace == 2 ^ HashBits
PowBound == 2 ^ (HashBits - 1) - 1     \* 2^255 - 1 in the code

HashValue(hash) == hash[1]

hash_block(block) ==
    LET t == block.transaction
        v == (1 + 3 * block.time + block.node_public_key
                + HashValue(block.previous_hash) + 5 * NonceEnds(block.nonce)
                + t.source_signature + t.details.source_public_key
                + 2 * t.details.destination_public_key + t.details.amount)
             % HashSpace
    IN  <<v, block.time, block.node_public_key, block.previous_hash,
          block.nonce, t.source_signature, t.details.source_public_key,
          t.details.destination_public_key, t.details.amount>>

----------------------------------------------------------------------------
(* Balance derivation and validation *)

Ok(value) == [ok |-> TRUE, value |-> value]
Err(msg) == [ok |-> FALSE, err |-> msg]

\* amount that ends the walk at a hash the store lacks as it does at the root
RECURSIVE amount_missing_link(_, _, _, _)
amount_missing_link(value, chain, hash, id) ==
    IF hash = ZeroHash \/ hash \notin DOMAIN chain THEN Ok(value)
    ELSE LET block == chain[hash]
             d == block.transaction.details
         IN  IF d.source_public_key = d.destination_public_key
             THEN Err("same")
             ELSE amount_missing_link(
                      value
                        - (IF id = d.source_public_key THEN d.amount ELSE 0)
                        + (IF id = d.destination_public_key THEN d.amount ELSE 0)
                        + (IF id = block.node_public_key THEN 1 ELSE 0),
                      chain, block.previous_hash, id)

\* amount that fails as soon as the running total is negative
RECURSIVE amount_nonnegative(_, _, _, _)
amount_nonnegative(value, chain, hash, id) ==
    IF value < 0 THEN Err("negative")
    ELSE IF hash = ZeroHash THEN Ok(value)
    ELSE IF hash \in DOMAIN chain
         THEN LET block == chain[hash]
                  d == block.transaction.details
              IN  IF d.source_public_key = d.destination_public_key
                  THEN Err("same")
                  ELSE amount_nonnegative(
                           value
                             - (IF id = d.source_public_key THEN d.amount ELSE 0)
                             + (IF id = d.destination_public_key THEN d.amount ELSE 0)
                             + (IF id = block.node_public_key THEN 1 ELSE 0),
                           chain, block.previous_hash, id)
         ELSE Err("missing")

\* amount that credits the destination without debiting the source
RECURSIVE amount_no_debit(_, _, _, _)
amount_no_debit(value, chain, hash, id) ==
    IF hash = ZeroHash THEN Ok(value)
    ELSE IF hash \in DOMAIN chain
         THEN LET block == chain[hash]
                  d == block.transaction.details
              IN  IF d.source_public_key = d.destination_public_key
                  THEN Err("same")
                  ELSE amount_no_debit(
                           value
                             + (IF id = d.destination_public_key THEN d.amount ELSE 0)
                             + (IF id = block.node_public_key THEN 1 ELSE 0),
                           chain, block.previous_hash, id)
         ELSE Err("missing")

RECURSIVE amount(_, _, _, _)
amount(value, chain, hash, id) ==
    IF hash = ZeroHash THEN Ok(value)
    ELSE IF hash \in DOMAIN chain
         THEN LET block == chain[hash]
                  d == block.transaction.details
              IN  IF d.source_public_key = d.destination_public_key
                  THEN Err("same")
                  ELSE amount(value
                                - (IF id = d.source_public_key THEN d.amount ELSE 0)
                                + (IF id = d.destination_public_key THEN d.amount ELSE 0)
                                + (IF id = block.node_public_key THEN 1 ELSE 0),
                              chain, block.previous_hash, id)
         ELSE Err("missing")

\* valid_block without the comparison of the funds with the transfer
valid_block_any_amount(block, chain) ==
    LET d == block.transaction.details
        r == amount(0, chain, block.previous_hash, d.source_public_key)
    IN  IF r.ok
        THEN d.source_public_key # d.destination_public_key
        ELSE FALSE

\* valid_block demanding more funds than the transfer
valid_block_strictly_more(block, chain) ==
    LET d == block.transaction.details
        r == amount(0, chain, block.previous_hash, d.source_public_key)
    IN  IF r.ok
        THEN r.value > d.amount
             /\ d.source_public_key # d.destination_public_key
        ELSE FALSE

\* valid_block without the comparison of source and destination
valid_block_self_transfer(block, chain) ==
    LET d == block.transaction.details
        r == amount(0, chain, block.previous_hash, d.source_public_key)
    IN  IF r.ok THEN r.value >= d.amount ELSE FALSE

\* valid_block letting the source overdraw by one
valid_block_overdraft(block, chain) ==
    LET d == block.transaction.details
        r == amount(0, chain, block.previous_hash, d.source_public_key)
    IN  IF r.ok
        THEN r.value + 1 >= d.amount
             /\ d.source_public_key # d.destination_public_key
        ELSE FALSE

valid_block(block, chain) ==
    LET d == block.transaction.details
        r == amount(0, chain, block.previous_hash, d.source_public_key)
    IN  IF r.ok
        THEN r.value >= d.amount
             /\ d.source_public_key # d.destination_public_key
        ELSE FALSE

\* What block_received and valid_block print about the outcome: "BLOCKCHAIN
\* ALREADY HAS BLOCK", an error of amount, "BLOCK ADDED", or a FUNDS CHECK line
\* alone, which shows less funds than the transfer ("insufficient") or not
\* ("refused").
Outcome(block, chain) ==
    LET d == block.transaction.details
        r == amount(0, chain, block.previous_hash, d.source_public_key)
    IN  IF hash_block(block) \in DOMAIN chain THEN "already"
        ELSE IF ~r.ok THEN r.err
        ELSE IF valid_block(block, chain) THEN "added"
        ELSE IF r.value < d.amount THEN "insufficient"
        ELSE "refused"

\* insert that evicts the block the new one is built on
Insert_evicting(chain, hash, block) ==
    [h \in (DOMAIN chain \ {block.previous_hash}) \cup {hash} |->
        IF h = hash THEN block ELSE chain[h]]

Insert(chain, hash, block) ==
    [h \in DOMAIN chain \cup {hash} |-> IF h = hash THEN block ELSE chain[h]]

\* block_received moving the tip before it validates the block
block_received_tip_first(chain, tip, block) ==
    LET hash == hash_block(block)
        new_tip == IF block.previous_hash = tip THEN hash ELSE tip
    IN  IF hash \in DOMAIN chain
        THEN [blockchain |-> chain, tip_hash |-> tip]
        ELSE IF valid_block(block, chain)
             THEN [blockchain |-> Insert(chain, hash, block), tip_hash |-> new_tip]
             ELSE [blockchain |-> chain, tip_hash |-> new_tip]

\* block_received making every block it accepts the tip
block_received_always_tip(chain, tip, block) ==
    LET hash == hash_block(block)
    IN  IF hash \in DOMAIN chain
        THEN [blockchain |-> chain, tip_hash |-> tip]
        ELSE IF valid_block(block, chain)
             THEN [blockchain |-> Insert(chain, hash, block), tip_hash |-> hash]
             ELSE [blockchain |-> chain, tip_hash |-> tip]

\* block_received taking a block it already has for the tip
block_received_known_is_tip(chain, tip, block) ==
    LET hash == hash_block(block)
    IN  IF hash \in DOMAIN chain
        THEN [blockchain |-> chain, tip_hash |-> hash]
        ELSE IF valid_block(block, chain)
             THEN [blockchain |-> Insert(chain, hash, block),
                   tip_hash |-> IF block.previous_hash = tip THEN hash ELSE tip]
             ELSE [blockchain |-> chain, tip_hash |-> tip]

\* block_received letting the latest block on the tip's parent take the tip
block_received_last_wins(chain, tip, block) ==
    LET hash == hash_block(block)
        parent == IF tip \in DOMAIN chain THEN chain[tip].previous_hash ELSE tip
    IN  IF hash \in DOMAIN chain
        THEN [blockchain |-> chain, tip_hash |-> tip]
        ELSE IF valid_block(block, chain)
             THEN [blockchain |-> Insert(chain, hash, block),
                   tip_hash |-> IF block.previous_hash \in {tip, parent}
                                THEN hash ELSE tip]
             ELSE [blockchain |-> chain, tip_hash |-> tip]

\* block_received storing the blocks it rejects, off the tip
block_received_keeps_rejected(chain, tip, block) ==
    LET hash == hash_block(block)
    IN  IF hash \in DOMAIN chain
        THEN [blockchain |-> chain, tip_hash |-> tip]
        ELSE IF valid_block(block, chain)
             THEN [blockchain |-> Insert(chain, hash, block),
                   tip_hash |-> IF block.previous_hash = tip THEN hash ELSE tip]
             ELSE [blockchain |-> Insert(chain, hash, block), tip_hash |-> tip]

\* block_received making every block the node mined itself the tip
block_received_own_wins(chain, tip, block) ==
    LET hash == hash_block(block)
    IN  IF hash \in DOMAIN chain
        THEN [blockchain |-> chain, tip_hash |-> tip]
        ELSE IF valid_block(block, chain)
             THEN [blockchain |-> Insert(chain, hash, block),
                   tip_hash |-> IF \/ block.previous_hash = tip
                                   \/ block.node_public_key = NodePublicKey
                                THEN hash ELSE tip]
             ELSE [blockchain |-> chain, tip_hash |-> tip]

\* block_received stepping the tip back to its parent when it rejects a block
block_received_rollback(chain, tip, block) ==
    LET hash == hash_block(block)
    IN  IF hash \in DOMAIN chain
        THEN [blockchain |-> chain, tip_hash |-> tip]
        ELSE IF valid_block(block, chain)
             THEN [blockchain |-> Insert(chain, hash, block),
                   tip_hash |-> IF block.previous_hash = tip THEN hash ELSE tip]
             ELSE [blockchain |-> chain,
                   tip_hash |-> IF tip \in DOMAIN chain
                                THEN chain[tip].previous_hash ELSE tip]

\* The critical section of block_received: the node's fields afterwards.
block_received(chain, tip, block) ==
    LET hash == hash_block(block)
    IN  IF hash \in DOMAIN chain
        THEN [blockchain |-> chain, tip_hash |-> tip]
        ELSE IF valid_block(block, chain)
             THEN [blockchain |-> Insert(chain, hash, block),
                   tip_hash |-> IF block.previous_hash = tip THEN hash ELSE tip]
             ELSE [blockchain |-> chain, tip_hash |-> tip]

----------------------------------------------------------------------------
(* Proof of work: one attempt against the node's key and tip, at time `time` *)

proof_of_work(key, tip, proto_block, time) ==
    LET block == NewBlock(time, key, tip, proto_block.nonce, proto_block.transaction)
        hash == hash_block(block)
    IN  IF HashValue(hash) < PowBound
        THEN [ok |-> TRUE, block |-> block]
        ELSE [ok |-> FALSE,
              proto_block |-> [nonce |-> increment_nonce(proto_block.nonce),
                               transaction |-> proto_block.transaction]]

----------------------------------------------------------------------------
(* Initial state: accept_connections_loop has created the channel and the   *)
(* node and spawned block_generator; every peer session is about to start.  *)

Init ==
    /\ blockchain = <<>>
    /\ tip_hash = ZeroHash
    /\ peers = {}
    /\ console = "none"
    /\ queue = <<>>
    /\ waiters = <<>>
    /\ generator = [pc |-> "recv", held |-> <<>>]
    /\ session = [p \in PeerAddrs |-> [pc |-> "connect", held |-> <<>>]]
    /\ lock = "free"
    /\ linear = [blockchain |-> <<>>, tip_hash |-> ZeroHash, peers |-> {}]
    /\ returned = <<>>

(* The tasks: the peer sessions and the mining task *)

Generator == "generator"
Tasks == PeerAddrs \cup {Generator}

(* The channel.  Sender::send waits for a permit of the channel's semaphore, *)
(* which serves the calls in the order they were made: a call completes     *)
(* when no earlier call is still waiting and the buffer has room.           *)

\* tx.send of a task that need not wait its turn
send_ready_barging(t) == Len(queue) < ChannelCapacity

send_ready(t) ==
    /\ waiters # <<>>
    /\ Head(waiters) = t
    /\ Len(queue) < ChannelCapacity

\* block_received as a step of the task that calls it
Ingest(block) ==
    LET r == block_received(blockchain, tip_hash, block)
    IN  /\ lock = "free"
        /\ Cardinality(DOMAIN r.blockchain) <= MaxBlocks
        /\ blockchain' = r.blockchain
        /\ tip_hash' = r.tip_hash
        /\ console' = Outcome(block, blockchain)

(* peer_loop *)

\* node.lock().await.add_peer(address, writter)
add_peer(p) ==
    /\ session[p].pc = "connect"
    /\ lock = "free"
    /\ peers' = peers \cup {p}
    /\ session' = [session EXCEPT ![p].pc = "read"]
    /\ UNCHANGED <<node_vars, channel_vars, generator, lock_vars, returned>>

\* Some(Frame::Block(block)) => block_received(node, block)
peer_loop_block(p, block) ==
    /\ session[p].pc = "read"
    /\ Ingest(block)
    /\ UNCHANGED <<peers, channel_vars, generator, session, lock_vars, returned>>

\* Some(Frame::Transaction(trx)) => transaction_received(trx, tx): up to the
\* call of tx.send
peer_loop_transaction(p, trx) ==
    /\ session[p].pc = "read"
    /\ session' = [session EXCEPT ![p] = [pc |-> "send", held |-> <<trx>>]]
    /\ waiters' = Append(waiters, p)
    /\ UNCHANGED <<node_vars, peers, queue, generator, lock_vars, returned>>

\* tx.send(transaction_to_proto_block(transaction)).await completes
transaction_received(p) ==
    /\ session[p].pc = "send"
    /\ send_ready(p)
    /\ queue' = Append(queue, transaction_to_proto_block(session[p].held[1]))
    /\ waiters' = Tail(waiters)
    /\ session' = [session EXCEPT ![p] = [pc |-> "read", held |-> <<>>]]
    /\ UNCHANGED <<node_vars, peers, generator, lock_vars, returned>>

\* None => break
peer_loop_end(p) ==
    /\ session[p].pc = "read"
    /\ session' = [session EXCEPT ![p].pc = "closed"]
    /\ UNCHANGED <<node_vars, peers, channel_vars, generator, lock_vars, returned>>

(* block_generator *)

\* rx.recv().await
generator_recv ==
    /\ generator.pc = "recv"
    /\ queue # <<>>
    /\ generator' = [pc |-> "pow", held |-> <<Head(queue)>>]
    /\ queue' = Tail(queue)
    /\ UNCHANGED <<node_vars, peers, waiters, session, lock_vars, returned>>

\* the match dropping the ProtoBlock of a rejected attempt
generator_match_dropping(r) ==
    /\ generator' = IF r.ok
                    THEN [pc |-> "created", held |-> <<r.block>>]
                    ELSE [pc |-> "recv", held |-> <<>>]
    /\ waiters' = waiters

\* the match on what proof_of_work returned: Ok(block) goes on to
\* block_created, Err(proto_block) calls tx.send
generator_match(r) ==
    /\ generator' = IF r.ok
                    THEN [pc |-> "created", held |-> <<r.block>>]
                    ELSE [pc |-> "send", held |-> <<r.proto_block>>]
    /\ waiters' = IF r.ok THEN waiters ELSE Append(waiters, Generator)

\* proof_of_work(node.clone(), proto_block).await
generator_proof_of_work(time) ==
    /\ generator.pc = "pow"
    /\ lock = "free"
    /\ NonceEnds(generator.held[1].nonce) <= MaxNonce
    /\ generator_match(
           proof_of_work(NodePublicKey, tip_hash, generator.held[1], time))
    /\ UNCHANGED <<node_vars, peers, queue, session, lock_vars, returned>>

\* Ok(block) => block_created(node.clone(), block).await
generator_block_created ==
    /\ generator.pc = "created"
    /\ Ingest(generator.held[1])
    /\ generator' = [pc |-> "recv", held |-> <<>>]
    /\ UNCHANGED <<peers, channel_vars, session, lock_vars, returned>>

\* Err(proto_block) => tx.send(proto_block).await completes
generator_send ==
    /\ generator.pc = "send"
    /\ send_ready(Generator)
    /\ queue' = Append(queue, generator.held[1])
    /\ waiters' = Tail(waiters)
    /\ generator' = [pc |-> "recv", held |-> <<>>]
    /\ UNCHANGED <<node_vars, peers, session, lock_vars, returned>>

----------------------------------------------------------------------------
(* The critical sections, statement by statement.  node.lock().await        *)
(* suspends the task until the Mutex is free; the guard is dropped at the   *)
(* end of the statement (add_peer) or of the function (block_received,      *)
(* proof_of_work).                                                          *)

pc_of(t) == IF t = Generator THEN generator.pc ELSE session[t].pc
held_of(t) == IF t = Generator THEN generator.held ELSE session[t].held

Goto(t, pc, held) ==
    IF t = Generator
    THEN /\ generator' = [pc |-> pc, held |-> held]
         /\ UNCHANGED session
    ELSE /\ session' = [session EXCEPT ![t] = [pc |-> pc, held |-> held]]
         /\ UNCHANGED generator

\* where a task is when it calls block_received, and where it goes on when
\* block_received returns
Calling(t) == IF t = Generator THEN "created" ELSE "received"
Returned(t) == IF t = Generator THEN "recv" ELSE "read"

\* node.lock().await taking the Mutex whether it is free or not
lock_acquire_barging(t) == lock' = t

\* node.lock().await completes
lock_acquire(t) ==
    /\ lock = "free"
    /\ lock' = t

\* the MutexGuard is dropped
lock_release == lock' = "free"

\* the positions inside a critical section
Sections == {"add_peer", "get", "valid", "tip", "insert", "pow_locked"}

\* node.lock().await of peer_loop
add_peer_lock(p) ==
    /\ session[p].pc = "connect"
    /\ lock_acquire(p)
    /\ session' = [session EXCEPT ![p].pc = "add_peer"]
    /\ linear' = [linear EXCEPT !.peers = @ \cup {p}]
    /\ UNCHANGED <<node_vars, peers, channel_vars, generator, returned>>

\* .add_peer(address, writter); the guard is dropped
add_peer_locked(p) ==
    /\ session[p].pc = "add_peer"
    /\ peers' = peers \cup {p}
    /\ lock_release
    /\ session' = [session EXCEPT ![p].pc = "read"]
    /\ UNCHANGED <<node_vars, channel_vars, generator, linear, returned>>

\* Some(Frame::Block(block)) => block_received(node, block): up to node.lock()
peer_loop_block_call(p, block) ==
    /\ session[p].pc = "read"
    /\ session' = [session EXCEPT ![p] = [pc |-> "received", held |-> <<block>>]]
    /\ UNCHANGED <<node_vars, peers, channel_vars, generator, lock_vars, returned>>

\* let mut node = node.lock().await
block_received_lock(t) ==
    LET block == held_of(t)[1]
        r == block_received(linear.blockchain, linear.tip_hash, block)
    IN  /\ pc_of(t) = Calling(t)
        /\ Cardinality(DOMAIN blockchain \cup {hash_block(block)}) <= MaxBlocks
        /\ lock_acquire(t)
        /\ Goto(t, "get", held_of(t))
        /\ linear' = [linear EXCEPT !.blockchain = r.blockchain,
                                    !.tip_hash = r.tip_hash]
        /\ UNCHANGED <<node_vars, peers, channel_vars, returned>>

\* match node.blockchain.get(&hash)
block_received_get(t) ==
    /\ pc_of(t) = "get"
    /\ IF hash_block(held_of(t)[1]) \in DOMAIN blockchain
       THEN /\ console' = "already"
            /\ lock_release
            /\ Goto(t, Returned(t), <<>>)
       ELSE /\ Goto(t, "valid", held_of(t))
            /\ UNCHANGED <<console, lock>>
    /\ UNCHANGED <<blockchain, tip_hash, peers, channel_vars, linear, returned>>

\* if valid_block(&block, &node.blockchain)
block_received_valid(t) ==
    /\ pc_of(t) = "valid"
    /\ IF valid_block(held_of(t)[1], blockchain)
       THEN /\ Goto(t, "tip", held_of(t))
            /\ UNCHANGED <<console, lock>>
       ELSE /\ console' = Outcome(held_of(t)[1], blockchain)
            /\ lock_release
            /\ Goto(t, Returned(t), <<>>)
    /\ UNCHANGED <<blockchain, tip_hash, peers, channel_vars, linear, returned>>

\* if block.previous_hash == node.tip_hash { node.tip_hash = hash; }
block_received_tip(t) ==
    /\ pc_of(t) = "tip"
    /\ tip_hash' = IF held_of(t)[1].previous_hash = tip_hash
                   THEN hash_block(held_of(t)[1])
                   ELSE tip_hash
    /\ Goto(t, "insert", held_of(t))
    /\ UNCHANGED <<blockchain, console, peers, channel_vars, lock_vars, returned>>

\* node.blockchain.insert(hash, block); the guard is dropped on return
block_received_insert(t) ==
    /\ pc_of(t) = "insert"
    /\ blockchain' = Insert(blockchain, hash_block(held_of(t)[1]), held_of(t)[1])
    /\ console' = "added"
    /\ lock_release
    /\ Goto(t, Returned(t), <<>>)
    /\ UNCHANGED <<tip_hash, peers, channel_vars, linear, returned>>

\* let unlocked_node = node.lock().await
proof_of_work_lock ==
    /\ generator.pc = "pow"
    /\ NonceEnds(generator.held[1].nonce) <= MaxNonce
    /\ lock_acquire(Generator)
    /\ generator' = [generator EXCEPT !.pc = "pow_locked"]
    /\ UNCHANGED <<node_vars, peers, channel_vars, session, linear, returned>>

\* the rest of proof_of_work; the guard is dropped on return
proof_of_work_locked(time) ==
    /\ generator.pc = "pow_locked"
    /\ generator_match(
           proof_of_work(NodePublicKey, tip_hash, generator.held[1], time))
    /\ lock_release
    /\ UNCHANGED <<node_vars, peers, queue, session, linear, returned>>

----------------------------------------------------------------------------
(* What the peers send *)

\* the transfers of the model: along the keys 0 -> 1 -> 2, and from a key to
\* itself
Transfers == {<<0, 1>>, <<1, 2>>, <<2, 2>>}

AllTransactions ==
    {Transaction_new(TransactionDetails_new(p[1], p[2], a), ZeroSignature) :
        p \in Transfers, a \in Amounts}

\* the transactions submitted for mining: a transfer of nothing, and a transfer
\* of more than its source ever holds
SubmittedTransactions ==
    {Transaction_new(TransactionDetails_new(1, 2, 0), ZeroSignature),
     Transaction_new(TransactionDetails_new(1, 2, 10), ZeroSignature)}

\* a hash the store may or may not hold yet: that of a valid first block
ForeignBlock ==
    NewBlock(0, 1, ZeroHash, ZeroNonce,
             Transaction_new(TransactionDetails_new(1, 2, 0), ZeroSignature))

PreviousHashes == {ZeroHash, hash_block(ForeignBlock)} \cup DOMAIN blockchain

\* the blocks of every miner, link and transaction of the model (mined at
\* time 0 with the zero nonce)
AllBlocks ==
    {NewBlock(0, k, prev, ZeroNonce, trx) :
        k \in Keys, prev \in PreviousHashes, trx \in AllTransactions}

\* the blocks another node (key 1) mines from the submitted transactions
PeerBlocks ==
    {NewBlock(0, 1, prev, ZeroNonce, trx) :
        prev \in PreviousHashes, trx \in SubmittedTransactions}

----------------------------------------------------------------------------
(* The node: peers send blocks and transactions, the generator mines *)

Next ==
    \/ \E p \in PeerAddrs : add_peer(p)
    \/ \E p \in PeerAddrs : \E block \in PeerBlocks : peer_loop_block(p, block)
    \/ \E p \in PeerAddrs : \E trx \in SubmittedTransactions :
            peer_loop_transaction(p, trx)
    \/ \E p \in PeerAddrs : transaction_received(p)
    \/ \E p \in PeerAddrs : peer_loop_end(p)
    \/ generator_recv
    \/ \E time \in Times : generator_proof_of_work(time)
    \/ generator_block_created
    \/ generator_send

Spec == Init /\ [][Next]_vars

(* The node with one peer session, which sends blocks only, of every shape *)

LedgerPeer == "p1"

LedgerNext ==
    \/ add_peer(LedgerPeer)
    \/ \E block \in AllBlocks : peer_loop_block(LedgerPeer, block)

LedgerSpec == Init /\ [][LedgerNext]_vars

(* The node under the scheduling tokio guarantees: a task that can take its *)
(* next step takes it.  What the peers send, and when, is up to them.       *)

Fairness ==
    /\ WF_vars(generator_recv)
    /\ WF_vars(\E time \in Times : generator_proof_of_work(time))
    /\ WF_vars(generator_block_created)
    /\ WF_vars(generator_send)
    /\ \A p \in PeerAddrs : WF_vars(add_peer(p))
    /\ \A p \in PeerAddrs : WF_vars(transaction_received(p))

FairSpec == Init /\ [][Next]_vars /\ Fairness

(* The node with the mining task and one peer session, which sends blocks   *)
(* and submits transactions                                                 *)

Submitter == "p1"

MiningNext ==
    \/ add_peer(Submitter)
    \/ \E block \in PeerBlocks : peer_loop_block(Submitter, block)
    \/ \E trx \in SubmittedTransactions : peer_loop_transaction(Submitter, trx)
    \/ transaction_received(Submitter)
    \/ peer_loop_end(Submitter)
    \/ generator_recv
    \/ \E time \in Times : generator_proof_of_work(time)
    \/ generator_block_created
    \/ generator_send

MiningSpec == Init /\ [][MiningNext]_vars

(* amount on every Chain Store: a HashMap filled with blocks of every       *)
(* shape, validated or not, and asked for the balance of every key from     *)
(* every hash                                                               *)

\* blockchain.insert(hash, block) on a store of any content
store_insert(block) ==
    /\ Cardinality(DOMAIN blockchain \cup {hash_block(block)}) <= MaxBlocks
    /\ blockchain' = Insert(blockchain, hash_block(block), block)
    /\ returned' = <<>>
    /\ UNCHANGED <<tip_hash, peers, console, channel_vars, generator, session,
                   lock_vars>>

\* amount(0, blockchain, hash, id)
amount_call(hash, id) ==
    /\ returned' = <<[hash |-> hash, id |-> id,
                      result |-> amount(0, blockchain, hash, id)]>>
    /\ UNCHANGED <<node_vars, peers, channel_vars, generator, session, lock_vars>>

\* the blocks of one miner that transfer something: funded or not, to another
\* key or to their own source, linked to the root, to a stored block or to a
\* block the store lacks
LooseBlocks ==
    {block \in AllBlocks :
        /\ block.node_public_key = 1
        /\ block.transaction.details.amount # 0}

AmountNext ==
    \/ \E block \in LooseBlocks : store_insert(block)
    \/ \E hash \in PreviousHashes : \E id \in Keys : amount_call(hash, id)

AmountSpec == Init /\ [][AmountNext]_vars

(* The node with its critical sections taken apart under the lock: both     *)
(* peers send blocks (transfers of nothing on every link, and a transfer    *)
(* without funds on the root), one of them also submits a transaction.      *)

LockBlocks ==
    {block \in PeerBlocks :
        \/ block.transaction.details.amount = 0
        \/ block.previous_hash = ZeroHash}

LockNext ==
    \/ \E p \in PeerAddrs : add_peer_lock(p)
    \/ \E p \in PeerAddrs : add_peer_locked(p)
    \/ \E p \in PeerAddrs : \E block \in LockBlocks :
            peer_loop_block_call(p, block)
    \/ peer_loop_transaction(Submitter, ForeignBlock.transaction)
    \/ transaction_received(Submitter)
    \/ \E t \in Tasks : block_received_lock(t)
    \/ \E t \in Tasks : block_received_get(t)
    \/ \E t \in Tasks : block_received_valid(t)
    \/ \E t \in Tasks : block_received_tip(t)
    \/ \E t \in Tasks : block_received_insert(t)
    \/ generator_recv
    \/ proof_of_work_lock
    \/ \E time \in Times : proof_of_work_locked(time)
    \/ generator_send

LockSpec == Init /\ [][LockNext]_vars

----------------------------------------------------------------------------
(* Vocabulary of the claims *)

\* b is a + 1, both read as little-endian unsigned integers of NonceLen bytes
IsSuccessor(a, b) ==
    \E k \in 1..NonceLen :
        /\ \A i \in 1..(k - 1) : a[i] = ByteBase - 1 /\ b[i] = 0
        /\ a[k] < ByteBase - 1
        /\ b[k] = a[k] + 1
        /\ \A i \in (k + 1)..NonceLen : b[i] = a[i]

Stored == DOMAIN blockchain

Fresh == Stored = {} /\ tip_hash = ZeroHash

Source(block) == block.transaction.details.source_public_key
Destination(block) == block.transaction.details.destination_public_key
Transferred(block) == block.transaction.details.amount

\* where the walk along previous_hash from h leaves the store
RECURSIVE Terminal(_, _)
Terminal(chain, h) ==
    IF h \in DOMAIN chain THEN Terminal(chain, chain[h].previous_hash) ELSE h

\* the stored blocks on the walk from h, nearest first
RECURSIVE PathFrom(_, _)
PathFrom(chain, h) ==
    IF h \in DOMAIN chain
    THEN <<h>> \o PathFrom(chain, chain[h].previous_hash)
    ELSE <<>>

ReachesRoot(chain, h) == Terminal(chain, h) = ZeroHash

\* the hashes on the walk from h
OnPath(chain, h) ==
    {PathFrom(chain, h)[i] : i \in 1..Len(PathFrom(chain, h))}

\* what a block adds to the holdings of id
Credit(block, id) ==
    (IF id = Destination(block) THEN Transferred(block) ELSE 0)
    - (IF id = Source(block) THEN Transferred(block) ELSE 0)
    + (IF id = block.node_public_key THEN 1 ELSE 0)

RECURSIVE SumCredits(_, _, _)
SumCredits(chain, path, id) ==
    IF path = <<>> THEN 0
    ELSE Credit(chain[Head(path)], id) + SumCredits(chain, Tail(path), id)

\* the balance of id derived from h back to the root
Balance(chain, h, id) == SumCredits(chain, PathFrom(chain, h), id)

\* what is printed when a block is rejected
Rejections == {"missing", "same", "insufficient", "refused"}

\* the ProtoBlock a task suspended in tx.send is about to enqueue
Pending(t) ==
    IF t = Generator
    THEN generator.held[1]
    ELSE transaction_to_proto_block(session[t].held[1])

\* a ProtoBlock that went through a rejected proof-of-work attempt
Retried(proto_block) == proto_block.nonce # ZeroNonce

\* how many ProtoBlocks of a transaction are in the queue or held by the
\* mining task (dequeued, being attempted, awaiting re-enqueue, or minted and
\* about to be ingested)
InPipeline(trx) ==
    Cardinality({i \in 1..Len(queue) : queue[i].transaction = trx})
    + (IF generator.held # <<>> /\ generator.held[1].transaction = trx
       THEN 1 ELSE 0)

\* the balances amount derives from h for the keys ids, added up
RECURSIVE Supply(_, _, _)
Supply(chain, h, ids) ==
    IF ids = {} THEN 0
    ELSE LET id == CHOOSE k \in ids : TRUE
         IN  amount(0, chain, h, id).value + Supply(chain, h, ids \ {id})

\* a balance can be derived from h: the walk ends at the root and meets no
\* transfer to oneself
Derivable(chain, h) ==
    /\ ReachesRoot(chain, h)
    /\ \A i \in 1..Len(PathFrom(chain, h)) :
          LET b == chain[PathFrom(chain, h)[i]] IN Source(b) # Destination(b)

----------------------------------------------------------------------------
(* C1: whenever the mining task holds a ProtoBlock whose proof-of-work      *)
(* attempt was rejected, it eventually re-enqueues it and returns to        *)
(* dequeuing; it is never blocked for ever.  The code falsifies this: with  *)
(* a channel of capacity 1 a peer session can fill the slot the generator   *)
(* freed, and then the generator waits in tx.send for room that only its    *)
(* own rx.recv could make.                                                  *)

C1_GeneratorNeverBlocked ==
    (generator.pc = "send") ~> (generator.pc = "recv")

----------------------------------------------------------------------------
(* C3: every rejected proof_of_work call returns a ProtoBlock whose nonce,  *)
(* read as a little-endian integer, is the previous nonce plus 1, the first *)
(* increment from zero included.  The code falsifies this: to_32bytes puts  *)
(* the minimal little-endian encoding of the sum in the last bytes.         *)

C3_NonceIncrementsByOne ==
    [][(generator.pc = "pow" /\ generator'.pc = "send")
         => /\ generator'.held[1].transaction = generator.held[1].transaction
            /\ IsSuccessor(generator.held[1].nonce, generator'.held[1].nonce)]_vars

----------------------------------------------------------------------------
(* C4: in every reachable state the Tip Hash is the all-zero root or the    *)
(* hash of a block in the Chain Store.                                      *)

C4_TipIsRootOrStored ==
    tip_hash = ZeroHash \/ tip_hash \in Stored

\* the tip is a stored block, after a peer registered and both a mined block
\* and a peer's block went into the store
C4_Witness ==
    /\ tip_hash # ZeroHash
    /\ tip_hash \in Stored
    /\ peers # {}
    /\ \E h \in Stored : blockchain[h].node_public_key = NodePublicKey
    /\ \E h \in Stored : blockchain[h].node_public_key # NodePublicKey

----------------------------------------------------------------------------
(* C2: on a fresh node (root tip, empty store) a block with previous_hash = *)
(* root, miner M and a transfer of 10 to A from another key is accepted,    *)
(* stored and made the tip, and then balance(A) = 10 and balance(M) = 1.    *)
(* The code refuses it: the source holds 0 at the root.                     *)

C2_FreshTransferOfTenAccepted ==
    [][\A block \in AllBlocks :
         ( /\ Fresh
           /\ block.previous_hash = ZeroHash
           /\ Transferred(block) = 10
           /\ Source(block) # Destination(block)
           /\ peer_loop_block(LedgerPeer, block) )
         => /\ hash_block(block) \in DOMAIN blockchain'
            /\ blockchain'[hash_block(block)] = block
            /\ tip_hash' = hash_block(block)
            /\ Balance(blockchain', tip_hash', Destination(block)) = 10
            /\ Balance(blockchain', tip_hash', block.node_public_key) = 1]_vars

(* C2 as amended: on a fresh node such a block is refused for lack of       *)
(* funds whenever it transfers more than 0 (10 included), and store and tip *)
(* stay as they were; with amount 0 it is stored and made the tip, and then *)
(* balance(M) = 1 and balance(A) = 0 (1 if A is the miner).                 *)

C2_FreshTransferNeedsFunds ==
    [][\A block \in AllBlocks :
         ( /\ Fresh
           /\ block.previous_hash = ZeroHash
           /\ Source(block) # Destination(block)
           /\ peer_loop_block(LedgerPeer, block) )
         => IF Transferred(block) > 0
            THEN /\ blockchain' = blockchain
                 /\ tip_hash' = ZeroHash
                 /\ console' = "insufficient"
            ELSE /\ DOMAIN blockchain' = {hash_block(block)}
                 /\ blockchain'[hash_block(block)] = block
                 /\ tip_hash' = hash_block(block)
                 /\ Balance(blockchain', tip_hash', block.node_public_key) = 1
                 /\ Balance(blockchain', tip_hash', Destination(block))
                      = IF Destination(block) = block.node_public_key
                        THEN 1 ELSE 0]_vars

\* the fresh node has just refused a transfer for lack of funds
C2_Witness ==
    /\ Fresh
    /\ session[LedgerPeer].pc = "read"
    /\ console = "insufficient"

----------------------------------------------------------------------------
(* C5: when block_received ingests a block that is not stored yet, passes   *)
(* the validator and has a previous_hash other than the Tip Hash, the block *)
(* is inserted under its hash and the Tip Hash is left unchanged; the Tip   *)
(* Hash becomes the block's hash only when previous_hash equals the Tip     *)
(* Hash read in the same ingestion.                                         *)

C5_TipExtensionRule ==
    \A block \in AllBlocks :
        LET hash == hash_block(block)
            after == block_received(blockchain, tip_hash, block)
        IN  /\ (hash \notin Stored /\ valid_block(block, blockchain))
               => /\ DOMAIN after.blockchain = Stored \cup {hash}
                  /\ after.blockchain[hash] = block
                  /\ \A h \in Stored : after.blockchain[h] = blockchain[h]
                  /\ block.previous_hash # tip_hash => after.tip_hash = tip_hash
                  /\ block.previous_hash = tip_hash => after.tip_hash = hash
            /\ after.tip_hash # tip_hash
               => after.tip_hash = hash /\ block.previous_hash = tip_hash

\* the store holds two blocks, the second was added off the tip: the tip is
\* the other one and is not the added block's parent
C5_Witness ==
    /\ console = "added"
    /\ Cardinality(Stored) = 2
    /\ \E h \in Stored :
          /\ h # tip_hash
          /\ blockchain[h].previous_hash # tip_hash
          /\ tip_hash \in Stored
          /\ blockchain[tip_hash].previous_hash # h

----------------------------------------------------------------------------
(* C6: ingesting a block whose hash is already in the Chain Store changes   *)
(* neither the store nor the Tip Hash; so ingesting any block a second time *)
(* leaves both as the first ingestion left them, whether the first made it  *)
(* the tip, stored it off the tip, or rejected it.                          *)

C6_IngestionIdempotent ==
    \A block \in AllBlocks :
        LET first == block_received(blockchain, tip_hash, block)
            second == block_received(first.blockchain, first.tip_hash, block)
        IN  /\ hash_block(block) \in Stored
               => first.blockchain = blockchain /\ first.tip_hash = tip_hash
            /\ second.blockchain = first.blockchain
            /\ second.tip_hash = first.tip_hash

\* a stored block that is not the tip has just been ingested again
C6_Witness ==
    /\ console = "already"
    /\ Cardinality(Stored) = 2
    /\ \E h \in Stored : h # tip_hash /\ blockchain[h].previous_hash = ZeroHash
    /\ tip_hash \in Stored
    /\ blockchain[tip_hash].previous_hash = ZeroHash

----------------------------------------------------------------------------
(* C7: with b the balance of the transaction's source derived from the      *)
(* block's previous_hash back to the root, the validator rejects the block  *)
(* when amount > b and accepts it when amount <= b (amount = b included)    *)
(* and source and destination differ.                                       *)

C7_FundsCheck ==
    \A block \in AllBlocks :
        Derivable(blockchain, block.previous_hash)
        => LET b == Balance(blockchain, block.previous_hash, Source(block))
           IN  /\ Transferred(block) > b => ~valid_block(block, blockchain)
               /\ (Transferred(block) <= b /\ Source(block) # Destination(block))
                     => valid_block(block, blockchain)

\* a block that spends all its source held (more than nothing) was accepted,
\* and a later transfer has just been refused for lack of funds
C7_Witness ==
    /\ console = "insufficient"
    /\ \E h \in Stored :
          /\ Transferred(blockchain[h]) > 0
          /\ Transferred(blockchain[h])
               = Balance(blockchain, blockchain[h].previous_hash,
                         Source(blockchain[h]))

----------------------------------------------------------------------------
(* C8: the validator rejects every block whose source equals its            *)
(* destination, whatever its previous_hash, amount or miner; so no block in *)
(* the Chain Store transfers from a key to itself.                          *)

C8_NoSelfTransfer ==
    /\ \A block \in AllBlocks :
          Source(block) = Destination(block) => ~valid_block(block, blockchain)
    /\ \A h \in Stored : Source(blockchain[h]) # Destination(blockchain[h])

\* with blocks in the store, a block whose source had the funds has just been
\* refused: a transfer to oneself
C8_Witness ==
    /\ console = "refused"
    /\ Stored # {}

----------------------------------------------------------------------------
(* C9: every block in the Chain Store reaches the root by previous_hash     *)
(* links through stored blocks; a block whose previous_hash is neither the  *)
(* root nor the hash of a stored block is rejected and never stored.        *)

C9_Linkable ==
    /\ \A h \in Stored :
          /\ ReachesRoot(blockchain, h)
          /\ blockchain[h].previous_hash \in Stored \cup {ZeroHash}
    /\ \A block \in AllBlocks :
          block.previous_hash \notin Stored \cup {ZeroHash}
          => ~valid_block(block, blockchain)

\* a chain of two blocks is stored and a block with an unknown parent has
\* just been rejected
C9_Witness ==
    /\ console = "missing"
    /\ \E h \in Stored : blockchain[h].previous_hash \in Stored
    /\ hash_block(ForeignBlock) \notin Stored

----------------------------------------------------------------------------
(* C10: of two valid blocks on the same parent, the one ingested while the  *)
(* parent is the tip becomes the tip, the other is stored without changing  *)
(* the tip, and no later ingestion (of that block again or of any other)    *)
(* makes a stored block that is not the tip the Tip Hash: in every step the *)
(* stored blocks stay stored and none of them that is not the tip becomes   *)
(* the tip.                                                                 *)

C10_OrphanNeverPromoted ==
    [][/\ \A h \in Stored : h \in DOMAIN blockchain'
       /\ \A h \in Stored : h # tip_hash => tip_hash' # h
       /\ \A h \in DOMAIN blockchain' \ Stored :
             /\ blockchain'[h].previous_hash = tip_hash => tip_hash' = h
             /\ ( /\ tip_hash \in Stored
                  /\ blockchain'[h].previous_hash
                       = blockchain[tip_hash].previous_hash )
                => tip_hash' = tip_hash]_vars

\* two stored blocks share their parent, one of them is the tip, and the other
\* has just been ingested again
C10_Witness ==
    /\ console = "already"
    /\ \E h \in Stored :
          /\ h # tip_hash
          /\ tip_hash \in Stored
          /\ blockchain[h].previous_hash = blockchain[tip_hash].previous_hash

----------------------------------------------------------------------------
(* C11: at most one task (the mining task or a peer session) accesses the   *)
(* Node at a time: a task inside a critical section holds the lock, the     *)
(* presence check, validation, tip update and insertion of an ingestion     *)
(* included; and whenever no writer is inside, the Chain Store, the Tip     *)
(* Hash and the peer table are those that the same block_received and       *)
(* add_peer operations produce when run one after the other, in the order   *)
(* in which they took the lock.                                             *)

C11_LinearizedByLock ==
    /\ \A t \in Tasks : pc_of(t) \in Sections => lock = t
    /\ lock # "free" => pc_of(lock) \in Sections
    /\ (lock = "free" \/ (lock = Generator /\ generator.pc = "pow_locked"))
          => /\ blockchain = linear.blockchain
             /\ tip_hash = linear.tip_hash
             /\ peers = linear.peers

\* both peer sessions registered and ingested a block each, on the same
\* parent, and the mining task is inside proof_of_work while a peer session
\* waits for the lock with a third block
C11_Witness ==
    /\ peers = PeerAddrs
    /\ Cardinality(Stored) = 2
    /\ \A h \in Stored : blockchain[h].previous_hash = ZeroHash
    /\ lock = Generator
    /\ \E p \in PeerAddrs : session[p].pc = "received"

----------------------------------------------------------------------------
(* C12: the mining task dequeues the ProtoBlocks in the order they were     *)
(* enqueued: it takes the head of the queue, and an enqueue puts the        *)
(* ProtoBlock of the longest-pending tx.send at the tail.  A ProtoBlock     *)
(* re-enqueued after a rejected attempt joins the pending enqueues behind   *)
(* all that are pending at that moment and goes to the tail of the queue    *)
(* only when none of them is pending any more, so it is attempted again     *)
(* only after them.                                                         *)

----------------------------------------------------------------------------
(* C13: when ingestion rejects a block (missing previous link, a transfer   *)
(* to oneself on the block or in its ancestry, or insufficient funds), the  *)
(* Chain Store, the Tip Hash and the peer table are exactly as before, the  *)
(* session goes on reading, and a valid block is still accepted afterwards: *)
(* a transfer of nothing on the tip would be stored and become the tip.     *)

C13_RejectionLeavesNodeUnchanged ==
    [][(session[LedgerPeer].pc = "read" /\ console' \in Rejections)
         => /\ blockchain' = blockchain
            /\ tip_hash' = tip_hash
            /\ peers' = peers
            /\ session' = session
            /\ LET block == NewBlock(0, 1, tip_hash', ZeroNonce,
                                      ForeignBlock.transaction)
                    r == block_received(blockchain', tip_hash', block)
               IN  /\ hash_block(block) \notin DOMAIN blockchain'
                   /\ valid_block(block, blockchain')
                   /\ r.blockchain = Insert(blockchain, hash_block(block), block)
                   /\ r.tip_hash = hash_block(block)]_vars

\* the registered peer's block has just been rejected by a node that holds
\* blocks and has room for more
C13_Witness ==
    /\ console \in Rejections
    /\ peers = {LedgerPeer}
    /\ tip_hash \in Stored
    /\ Cardinality(Stored) < MaxBlocks

----------------------------------------------------------------------------
(* C14: the Chain Store is append-only: once a hash maps to a block, in     *)
(* every later state the same hash maps to the same unchanged block; no     *)
(* step of a peer session or of the mining task deletes, replaces or        *)
(* changes a stored block.                                                  *)

C14_AppendOnly ==
    [][\A h \in Stored :
          /\ h \in DOMAIN blockchain'
          /\ blockchain'[h] = blockchain[h]]_vars

\* a block mined by the node was stored on top of a block a peer sent, which
\* is still there, and the peer's block has been ingested once more since
C14_Witness ==
    /\ console = "already"
    /\ \E h \in Stored :
          /\ blockchain[h].node_public_key = NodePublicKey
          /\ blockchain[h].previous_hash \in Stored
          /\ blockchain[blockchain[h].previous_hash].node_public_key
               # NodePublicKey

----------------------------------------------------------------------------
(* C15: for every Chain Store, starting hash and identity, amount returns   *)
(* the sum over the blocks on the previous_hash path from the starting hash *)
(* to the root of +amount where the identity is the destination, -amount    *)
(* where it is the source and +1 where it is the miner; it returns 0 when   *)
(* the starting hash is the root; it fails when a hash on the path is       *)
(* missing from the store or a block on the path transfers to its own       *)
(* source; and it does not fail because the running total is negative on    *)
(* the way.                                                                 *)

C15_BalanceDerivation ==
    \A hash \in PreviousHashes : \A id \in Keys :
        LET r == amount(0, blockchain, hash, id)
        IN  /\ hash = ZeroHash => r = Ok(0)
            /\ Derivable(blockchain, hash)
                  => r = Ok(Balance(blockchain, hash, id))
            /\ ~Derivable(blockchain, hash) => ~r.ok

\* amount has returned a balance that is not negative for a key whose running
\* total was negative after the first block of the walk
C15_Witness ==
    /\ returned # <<>>
    /\ returned[1].hash \in Stored
    /\ Credit(blockchain[returned[1].hash], returned[1].id) < 0
    /\ returned[1].result.ok
    /\ returned[1].result.value >= 0

----------------------------------------------------------------------------
(* C16: the block proof_of_work mints has the Tip Hash read in that call as *)
(* its previous_hash, and it is ingested in a later step.  If a peer's      *)
(* block was ingested in between and changed the Tip Hash, the minted block *)
(* does not become the tip when it is ingested: it is at most stored beside *)
(* the chain, and the Tip Hash stays the hash of the peer's block.          *)

C16_StaleMintedBlockNotTip ==
    [][/\ (generator.pc = "pow" /\ generator'.pc = "created")
          => /\ generator'.held[1].previous_hash = tip_hash
             /\ UNCHANGED <<blockchain, tip_hash>>
       /\ ( /\ generator.pc = "created"
            /\ generator'.pc = "recv"
            /\ generator.held[1].previous_hash # tip_hash )
          => /\ tip_hash' = tip_hash
             /\ tip_hash' # hash_block(generator.held[1])
             /\ \A h \in Stored :
                   h \in DOMAIN blockchain' /\ blockchain'[h] = blockchain[h]
             /\ DOMAIN blockchain'
                   \subseteq Stored \cup {hash_block(generator.held[1])}]_vars

\* the tip is a peer's block, and the block the node minted on the same
\* parent has just been stored beside it
C16_Witness ==
    /\ generator.pc = "recv"
    /\ console = "added"
    /\ tip_hash \in Stored
    /\ blockchain[tip_hash].node_public_key # NodePublicKey
    /\ \E h \in Stored :
          /\ h # tip_hash
          /\ blockchain[h].node_public_key = NodePublicKey
          /\ blockchain[h].previous_hash = blockchain[tip_hash].previous_hash

----------------------------------------------------------------------------
(* C17: every enqueued transaction is represented by exactly one of a       *)
(* ProtoBlock in the queue, the ProtoBlock (or minted Block) the mining     *)
(* task holds, or one minted Block handed to ingestion.  Step by step: a    *)
(* completed tx.send of a peer session adds one ProtoBlock of its           *)
(* transaction; the ingestion of a minted Block takes one away, leaves the  *)
(* queue alone and hands over exactly that Block, accepted or rejected;     *)
(* every other step (dequeue, attempt, re-enqueue) keeps the count of every *)
(* transaction, and an attempt keeps the transaction it works on.           *)

C17_ProtoBlockConservation ==
    [][\A trx \in SubmittedTransactions :
          LET before == InPipeline(trx)
              after == InPipeline(trx)'
          IN  /\ (session[Submitter].pc = "send" /\ session'[Submitter].pc = "read")
                 => after = before
                              + (IF session[Submitter].held[1] = trx THEN 1 ELSE 0)
              /\ (generator.pc = "created" /\ generator'.pc = "recv")
                 => /\ after = before
                                 - (IF generator.held[1].transaction = trx
                                    THEN 1 ELSE 0)
                    /\ queue' = queue
                    /\ generator'.held = <<>>
                    /\ LET r == block_received(blockchain, tip_hash,
                                               generator.held[1])
                       IN  blockchain' = r.blockchain /\ tip_hash' = r.tip_hash
              /\ ( /\ ~(session[Submitter].pc = "send"
                         /\ session'[Submitter].pc = "read")
                   /\ ~(generator.pc = "created" /\ generator'.pc = "recv") )
                 => after = before
              /\ (generator.pc = "pow" /\ generator'.pc # "pow")
                 => /\ generator'.held # <<>>
                    /\ generator'.held[1].transaction
                         = generator.held[1].transaction
                    /\ queue' = queue]_vars

\* a ProtoBlock that was re-enqueued after a rejected attempt has been minted
\* into a Block, while the next ProtoBlock is already in the queue
C17_Witness ==
    /\ generator.pc = "created"
    /\ generator.held[1].nonce # ZeroNonce
    /\ queue # <<>>
    /\ queue[1].transaction # generator.held[1].transaction

----------------------------------------------------------------------------
(* C18: in every step that changes the Tip Hash, the new tip is the hash of *)
(* a block inserted in that same step whose previous_hash is the old Tip    *)
(* Hash; so every block on the path from the tip to the root stays on that  *)
(* path in every later state: the chain is never re-organised and the tip   *)
(* never steps back.                                                        *)

C18_TipOnlyAppends ==
    [][/\ tip_hash' # tip_hash
          => /\ tip_hash' \in DOMAIN blockchain'
             /\ tip_hash' \notin Stored
             /\ blockchain'[tip_hash'].previous_hash = tip_hash
       /\ OnPath(blockchain, tip_hash) \subseteq OnPath(blockchain', tip_hash')
       /\ Len(PathFrom(blockchain', tip_hash'))
             >= Len(PathFrom(blockchain, tip_hash))]_vars

\* the chain from the tip is two blocks long, one from a peer and one mined
\* by the node, and a block has just been rejected
C18_Witness ==
    /\ Len(PathFrom(blockchain, tip_hash)) = 2
    /\ \E h \in OnPath(blockchain, tip_hash) :
          blockchain[h].node_public_key = NodePublicKey
    /\ \E h \in OnPath(blockchain, tip_hash) :
          blockchain[h].node_public_key # NodePublicKey
    /\ console \in Rejections

----------------------------------------------------------------------------
(* C19: in every reachable state, for every block h in the Chain Store (the *)
(* tip or a block beside the chain) and every identity, the balance amount  *)
(* derives from h back to the root exists and is at least 0.                *)

C19_NoNegativeBalance ==
    \A h \in Stored : \A id \in Keys :
        LET r == amount(0, blockchain, h, id)
        IN  r.ok /\ r.value >= 0

\* a stored block moved all its source held, more than nothing: the source's
\* balance from that block is exactly 0
C19_Witness ==
    \E h \in Stored :
        /\ Transferred(blockchain[h]) > 0
        /\ amount(0, blockchain, h, Source(blockchain[h])) = Ok(0)

----------------------------------------------------------------------------
(* C20: in every reachable state, for every block h in the Chain Store, the *)
(* balances derived from h, added up over all identities, equal the number  *)
(* of blocks on the path from h to the root: a transfer moves value without *)
(* creating or destroying any, and each block mints exactly 1 unit to its   *)
(* miner.                                                                   *)

C20_SupplyConservation ==
    \A h \in Stored :
        /\ \A id \in Keys : amount(0, blockchain, h, id).ok
        /\ Supply(blockchain, h, Keys) = Len(PathFrom(blockchain, h))

\* a path of two blocks, the second of which moved value between two keys
C20_Witness ==
    \E h \in Stored :
        /\ Len(PathFrom(blockchain, h)) = 2
        /\ Transferred(blockchain[h]) > 0
        /\ Supply(blockchain, h, Keys) = 2

====
